---- MODULE Spec2Model ----
(***************************************************************************)
(* A model of the Puch Finance Hub backend:                                *)
(*   portfolio_manager.py  the Holding Store (USER_DATA mirrored to        *)
(*                         DATA_FILE as one JSON document),                *)
(*   models.py             the Portfolio model (validate / dump),          *)
(*   fmp_client.py         the Market Data Gateway,                        *)
(*   main.py               the tools (add_stock, add_crypto, remove_asset, *)
(*                         get_portfolio_summary).                         *)
(*                                                                         *)
(* Python values: a str that the code inspects character by character (a   *)
(* ticker, a market symbol) is a sequence of one-letter strings; None and  *)
(* an optional str are tagged records; a float is an integer; a list is a  *)
(* sequence; a dict is a function from its keys.                           *)
(***************************************************************************)
EXTENDS Integers, Sequences, FiniteSets, TLC

VARIABLES
    USER_DATA,   \* portfolio_manager.USER_DATA: user id -> portfolio dict
    DATA_FILE,   \* the content of user_data.json
    call,        \* the last call made and how it ended
    ops,         \* number of calls made so far
    task,        \* the get_portfolio_summary coroutine
    committed,   \* USER_DATA as the last completed add/remove tool left it
    gw           \* the last Market Data Gateway operation

vars == <<USER_DATA, DATA_FILE, call, ops, task, committed, gw>>

\* Number of calls in a run.
MaxOps == 2

-----------------------------------------------------------------------------
(* Python values *)

None == [py |-> "None"]
PyStr(s) == [py |-> "str", v |-> s]
PyList(l) == [py |-> "list", v |-> l]
PyDict(d) == [py |-> "dict", v |-> d]

EmptyDict == [k \in {} |-> None]

RECURSIVE SumSeq(_)
SumSeq(s) == IF s = <<>> THEN 0 ELSE Head(s) + SumSeq(Tail(s))

\* str.upper(), letter by letter
UpperChar(c) ==
    CASE c = "a" -> "A"
      [] c = "b" -> "B"
      [] c = "x" -> "X"
      [] OTHER -> c

Upper(s) == [i \in 1..Len(s) |-> UpperChar(s[i])]

-----------------------------------------------------------------------------
(* Inputs *)

Users == {"u1", "u2"}
AssetTypes == {"stock", "mutual_fund", "crypto"}
TickerInputs == {<<"a", "b">>, <<"A", "B">>, <<"X">>}
Quantities == {1, 2}
Costs == {3}
Dates == {None}

\* models.py: the fields of the three holding models
StockHolding == [ticker : TickerInputs, quantity : Quantities,
                 avg_cost : Costs, purchase_date : Dates]
MutualFundHolding == [ticker : TickerInputs, units : Quantities,
                      avg_nav : Costs, purchase_date : Dates]
CryptoHolding == StockHolding

\* The dict a caller passes as asset_data: the dump of the class's model.
AssetData(asset_type) ==
    CASE asset_type = "stock" -> StockHolding
      [] asset_type = "mutual_fund" -> MutualFundHolding
      [] asset_type = "crypto" -> CryptoHolding

PortfolioKeys == {"stocks", "mutual_funds", "crypto"}

\* {"stocks": [], "mutual_funds": [], "crypto": []}
EmptyPortfolio == [stocks |-> <<>>, mutual_funds |-> <<>>, crypto |-> <<>>]

\* Portfolio.model_validate(d).model_dump(): the three declared fields, each
\* defaulting to []; keys the model does not declare are dropped.
ModelValidate(d) ==
    [k \in PortfolioKeys |-> IF k \in DOMAIN d THEN d[k] ELSE <<>>]

-----------------------------------------------------------------------------
(* JSON documents: json.dump / json.load of the table *)

JNull == [j |-> "null"]
JNum(n) == [j |-> "number", n |-> n]
JStr(s) == [j |-> "string", s |-> s]
JArr(items) == [j |-> "array", items |-> items]
JObj(members) == [j |-> "object", members |-> members]

JKeys(o) == {m[1] : m \in o.members}
JGet(o, k) == (CHOOSE m \in o.members : m[1] = k)[2]

EncField(k, v) ==
    CASE k = "ticker" -> JStr(v)
      [] k = "purchase_date" -> IF v = None THEN JNull ELSE JStr(v.v)
      [] OTHER -> JNum(v)

DecField(k, jv) ==
    CASE k = "ticker" -> jv.s
      [] k = "purchase_date" -> IF jv.j = "null" THEN None ELSE PyStr(jv.s)
      [] OTHER -> jv.n

EncHolding(h) == JObj({<<k, EncField(k, h[k])>> : k \in DOMAIN h})
DecHolding(o) == [k \in JKeys(o) |-> DecField(k, JGet(o, k))]

EncList(l) == JArr([i \in 1..Len(l) |-> EncHolding(l[i])])
DecList(a) == [i \in 1..Len(a.items) |-> DecHolding(a.items[i])]

EncPortfolio(p) == JObj({<<k, EncList(p[k])>> : k \in DOMAIN p})
DecPortfolio(o) == [k \in JKeys(o) |-> DecList(JGet(o, k))]

json_dump(table) == JObj({<<u, EncPortfolio(table[u])>> : u \in DOMAIN table})
json_load(doc) == [u \in JKeys(doc) |-> DecPortfolio(JGet(doc, u))]

FileAbsent == [kind |-> "absent"]
FileCorrupt == [kind |-> "corrupt"]
FileJson(doc) == [kind |-> "json", doc |-> doc]

-----------------------------------------------------------------------------
(* portfolio_manager.py *)

\* load_data(): the table read from the file; {} when the file is absent or
\* does not parse.
LoadedTable(file) ==
    IF file.kind = "json" THEN json_load(file.doc) ELSE EmptyDict

\* save_data(): the whole table written as one document.
SavedFile(table) == FileJson(json_dump(table))

\* USER_DATA.setdefault(puch_user_id, {...}): the table afterwards.
SetDefault(table, u) ==
    IF u \in DOMAIN table THEN table
    ELSE [v \in DOMAIN table \cup {u} |->
            IF v = u THEN EmptyPortfolio ELSE table[v]]

\* The value get_user_portfolio(u) returns for a table.
PortfolioOf(table, u) == ModelValidate(SetDefault(table, u)[u])

\* f"{asset_type}s"
AssetListKey(asset_type) == asset_type \o "s"

\* The index of the first entry whose stored ticker equals the uppercased
\* ticker, 0 when the loop finds none.
FoundIndex(list, ticker) ==
    IF \E i \in 1..Len(list) : list[i].ticker = ticker
    THEN CHOOSE i \in 1..Len(list) :
            /\ list[i].ticker = ticker
            /\ \A k \in 1..(i - 1) : list[k].ticker /= ticker
    ELSE 0

\* The list after the replace-or-append of add_asset_to_portfolio.
Upserted(list, asset_data) ==
    LET ticker == Upper(asset_data.ticker)
        i == FoundIndex(list, ticker)
    IN  IF i > 0 THEN [list EXCEPT ![i] = asset_data]
        ELSE Append(list, asset_data)

\* The list comprehension of remove_asset_from_portfolio.
Filtered(list, ticker) ==
    SelectSeq(list, LAMBDA asset : Upper(asset.ticker) /= Upper(ticker))

CallRecord(op, u, asset_type, ticker, data, outcome, ret, saved) ==
    [op |-> op, user |-> u, asset_type |-> asset_type, ticker |-> ticker,
     data |-> data, outcome |-> outcome, ret |-> ret, saved |-> saved,
     before |-> USER_DATA, fileBefore |-> DATA_FILE]

load_data ==
    /\ ops < MaxOps
    /\ USER_DATA' = LoadedTable(DATA_FILE)
    /\ call' = CallRecord("load_data", "", "", <<>>, None, "return", None, FALSE)
    /\ ops' = ops + 1
    /\ committed' = USER_DATA'
    /\ UNCHANGED <<DATA_FILE, task, gw>>

get_user_portfolio(u) ==
    /\ ops < MaxOps
    /\ USER_DATA' = SetDefault(USER_DATA, u)
    /\ call' = CallRecord("get_user_portfolio", u, "", <<>>, None, "return",
                          PyDict(PortfolioOf(USER_DATA, u)), FALSE)
    /\ ops' = ops + 1
    /\ UNCHANGED <<DATA_FILE, task, committed, gw>>

\* The table and file after add_asset_to_portfolio, and how the call ends.
AddEffect(table, file, u, asset_type, asset_data) ==
    LET t1 == SetDefault(table, u)
        portfolio == ModelValidate(t1[u])
        key == AssetListKey(asset_type)
    IN  IF key \notin DOMAIN portfolio
        THEN [table |-> t1, file |-> file, outcome |-> "KeyError",
              ret |-> None, saved |-> FALSE]
        ELSE LET t2 == [t1 EXCEPT ![u] =
                          [portfolio EXCEPT ![key] = Upserted(portfolio[key], asset_data)]]
             IN  [table |-> t2, file |-> SavedFile(t2), outcome |-> "return",
                  ret |-> None, saved |-> TRUE]

\* remove_asset_from_portfolio without its save_data() call.
RemoveEffectNoSave(table, file, u, asset_type, ticker) ==
    LET t1 == SetDefault(table, u)
        portfolio == ModelValidate(t1[u])
        key == AssetListKey(asset_type)
    IN  IF key \notin DOMAIN portfolio
        THEN [table |-> t1, file |-> file, outcome |-> "KeyError",
              ret |-> None, saved |-> FALSE]
        ELSE LET kept == Filtered(portfolio[key], ticker)
                 t2 == [t1 EXCEPT ![u] = [portfolio EXCEPT ![key] = kept]]
             IN  IF Len(kept) < Len(portfolio[key])
                 THEN [table |-> t2, file |-> file, outcome |-> "return",
                       ret |-> TRUE, saved |-> FALSE]
                 ELSE [table |-> t1, file |-> file, outcome |-> "return",
                       ret |-> FALSE, saved |-> FALSE]

\* The table and file after remove_asset_from_portfolio, and how the call ends.
RemoveEffect(table, file, u, asset_type, ticker) ==
    LET t1 == SetDefault(table, u)
        portfolio == ModelValidate(t1[u])
        key == AssetListKey(asset_type)
    IN  IF key \notin DOMAIN portfolio
        THEN [table |-> t1, file |-> file, outcome |-> "KeyError",
              ret |-> None, saved |-> FALSE]
        ELSE LET kept == Filtered(portfolio[key], ticker)
                 t2 == [t1 EXCEPT ![u] = [portfolio EXCEPT ![key] = kept]]
             IN  IF Len(kept) < Len(portfolio[key])
                 THEN [table |-> t2, file |-> SavedFile(t2), outcome |-> "return",
                       ret |-> TRUE, saved |-> TRUE]
                 ELSE [table |-> t1, file |-> file, outcome |-> "return",
                       ret |-> FALSE, saved |-> FALSE]

add_asset_to_portfolio(u, asset_type, asset_data) ==
    /\ ops < MaxOps
    /\ LET e == AddEffect(USER_DATA, DATA_FILE, u, asset_type, asset_data)
       IN  /\ USER_DATA' = e.table
           /\ DATA_FILE' = e.file
           /\ call' = CallRecord("add_asset_to_portfolio", u, asset_type,
                                 asset_data.ticker, asset_data, e.outcome, e.ret, e.saved)
           /\ committed' = IF e.outcome = "return" THEN e.table ELSE committed
    /\ ops' = ops + 1
    /\ UNCHANGED <<task, gw>>

remove_asset_from_portfolio(u, asset_type, ticker) ==
    /\ ops < MaxOps
    /\ LET e == RemoveEffect(USER_DATA, DATA_FILE, u, asset_type, ticker)
       IN  /\ USER_DATA' = e.table
           /\ DATA_FILE' = e.file
           /\ call' = CallRecord("remove_asset_from_portfolio", u, asset_type,
                                 ticker, None, e.outcome, e.ret, e.saved)
           /\ committed' = IF e.outcome = "return" /\ e.saved THEN e.table ELSE committed
    /\ ops' = ops + 1
    /\ UNCHANGED <<task, gw>>

-----------------------------------------------------------------------------
(* The document found at startup *)

SeedTable ==
    [u \in {"u1"} |->
        [stocks |-> <<[ticker |-> <<"X">>, quantity |-> 1, avg_cost |-> 3,
                       purchase_date |-> None]>>,
         mutual_funds |-> <<[ticker |-> <<"A", "B">>, units |-> 2, avg_nav |-> 3,
                             purchase_date |-> PyStr("2024-01-01")]>>,
         crypto |-> <<[ticker |-> <<"X">>, quantity |-> 2, avg_cost |-> 3,
                       purchase_date |-> None]>>]]

StartupFiles == {FileAbsent, FileCorrupt, FileJson(json_dump(SeedTable))}

NoTask == [pc |-> "idle"]
NoGateway == [op |-> "none"]

Init ==
    /\ DATA_FILE \in StartupFiles
    /\ USER_DATA = LoadedTable(DATA_FILE)
    /\ call = [op |-> "load_data", user |-> "", asset_type |-> "", ticker |-> <<>>,
               data |-> None, outcome |-> "return", ret |-> None, saved |-> FALSE,
               before |-> EmptyDict, fileBefore |-> DATA_FILE]
    /\ ops = 0
    /\ task = NoTask
    /\ committed = USER_DATA
    /\ gw = NoGateway

Next ==
    \/ load_data
    \/ \E u \in Users : get_user_portfolio(u)
    \/ \E u \in Users, asset_type \in AssetTypes :
          \E asset_data \in AssetData(asset_type) :
              add_asset_to_portfolio(u, asset_type, asset_data)
    \/ \E u \in Users, asset_type \in AssetTypes, ticker \in TickerInputs :
          remove_asset_from_portfolio(u, asset_type, ticker)

Spec == Init /\ [][Next]_vars

-----------------------------------------------------------------------------
(* fmp_client.py *)

\* What the provider, or the transport, answers to the one GET of a call.
TransportError == [kind |-> "transport_error"]
HttpStatusError(status) == [kind |-> "http_status", status |-> status]
Ok(body) == [kind |-> "ok", body |-> body]
Failures == {TransportError, HttpStatusError(404), HttpStatusError(500)}
Failed(response) == response.kind /= "ok"

\* Python truthiness of None, a list and a dict.
Truthy(v) ==
    CASE v.py = "None" -> FALSE
      [] v.py = "list" -> v.v /= <<>>
      [] v.py = "dict" -> DOMAIN v.v /= {}

\* FMPClient._make_request: the parsed body, None on any exception.
MakeRequest(response) ==
    IF response.kind = "ok" THEN response.body ELSE None

\* FMPClient.get_quotes
GetQuotesResult(symbols, response) ==
    IF symbols = <<>> THEN PyList(<<>>) ELSE MakeRequest(response)

\* FMPClient.get_historical_daily_price
GetHistoricalResult(response) ==
    LET data == MakeRequest(response)
    IN  IF Truthy(data) /\ "historical" \in DOMAIN data.v /\ Truthy(data.v.historical)
        THEN PyDict(data.v.historical.v[1]) ELSE None

\* FMPClient.get_company_profile, FMPClient.convert_forex
FirstOrNone(response) ==
    LET l == MakeRequest(response)
    IN  IF Truthy(l) THEN PyDict(l.v[1]) ELSE None

\* FMPClient.get_stock_news, FMPClient.get_fund_holdings
ListOrEmpty(response) ==
    LET l == MakeRequest(response)
    IN  IF Truthy(l) THEN l ELSE PyList(<<>>)

Symbols == {<<"A", "B">>, <<"X">>, <<"X", "U", "S", "D">>}
Prices == {0, 5}
QuoteBodies == {PyList(<<>>)} \cup
    {PyList(<<[symbol |-> s, price |-> p]>>) : s \in Symbols, p \in Prices}
HistoricalBodies ==
    {PyDict(EmptyDict), PyDict([historical |-> PyList(<<>>)]),
     PyDict([historical |-> PyList(<<[close |-> 5]>>)])}
RecordBodies == {PyList(<<>>), PyList(<<[symbol |-> <<"X">>]>>),
                 PyList(<<[symbol |-> <<"X">>], [symbol |-> <<"A", "B">>]>>)}

GatewayCall(op, arg, response, requests, result) ==
    [op |-> op, arg |-> arg, response |-> response, requests |-> requests,
     outcome |-> "return", result |-> result]

get_quotes(symbols, response) ==
    /\ ops < MaxOps
    /\ gw' = GatewayCall("get_quotes", symbols, response, IF symbols = <<>> THEN 0 ELSE 1, GetQuotesResult(symbols, response))
    /\ ops' = ops + 1
    /\ UNCHANGED <<USER_DATA, DATA_FILE, call, task, committed>>

get_historical_daily_price(symbol, response) ==
    /\ ops < MaxOps
    /\ gw' = GatewayCall("get_historical_daily_price", <<symbol>>, response, 1, GetHistoricalResult(response))
    /\ ops' = ops + 1
    /\ UNCHANGED <<USER_DATA, DATA_FILE, call, task, committed>>

get_company_profile(symbol, response) ==
    /\ ops < MaxOps
    /\ gw' = GatewayCall("get_company_profile", <<symbol>>, response, 1, FirstOrNone(response))
    /\ ops' = ops + 1
    /\ UNCHANGED <<USER_DATA, DATA_FILE, call, task, committed>>

get_stock_news(symbol, response) ==
    /\ ops < MaxOps
    /\ gw' = GatewayCall("get_stock_news", <<symbol>>, response, 1, ListOrEmpty(response))
    /\ ops' = ops + 1
    /\ UNCHANGED <<USER_DATA, DATA_FILE, call, task, committed>>

get_fund_holdings(symbol, response) ==
    /\ ops < MaxOps
    /\ gw' = GatewayCall("get_fund_holdings", <<symbol>>, response, 1, ListOrEmpty(response))
    /\ ops' = ops + 1
    /\ UNCHANGED <<USER_DATA, DATA_FILE, call, task, committed>>

convert_forex(symbol, response) ==
    /\ ops < MaxOps
    /\ gw' = GatewayCall("convert_forex", <<symbol>>, response, 1, FirstOrNone(response))
    /\ ops' = ops + 1
    /\ UNCHANGED <<USER_DATA, DATA_FILE, call, task, committed>>

NextGateway ==
    \/ \E symbols \in {<<>>, <<<<"X">>>>, <<<<"a", "b">>, <<"X">>>>},
          response \in Failures \cup {Ok(b) : b \in QuoteBodies} :
              get_quotes(symbols, response)
    \/ \E symbol \in TickerInputs,
          response \in Failures \cup {Ok(b) : b \in HistoricalBodies} :
              get_historical_daily_price(symbol, response)
    \/ \E symbol \in TickerInputs,
          response \in Failures \cup {Ok(b) : b \in RecordBodies} :
              \/ get_company_profile(symbol, response)
              \/ get_stock_news(symbol, response)
              \/ get_fund_holdings(symbol, response)
              \/ convert_forex(symbol, response)

SpecGateway == Init /\ [][NextGateway]_vars

-----------------------------------------------------------------------------
(* main.py: the tools.  A tool is a coroutine; add_stock, add_crypto and    *)
(* remove_asset hold no await and run to their end in one step, while      *)
(* get_portfolio_summary gives up control at `await fmp.get_quotes(...)`.  *)

add_stock(u, stock) ==
    /\ ops < MaxOps
    /\ LET e == AddEffect(USER_DATA, DATA_FILE, u, "stock", stock)
       IN  /\ USER_DATA' = e.table
           /\ DATA_FILE' = e.file
           /\ call' = CallRecord("add_stock", u, "stock", stock.ticker, stock,
                                 e.outcome, e.ret, e.saved)
           /\ committed' = IF e.outcome = "return" THEN e.table ELSE committed
    /\ ops' = ops + 1
    /\ UNCHANGED <<task, gw>>

add_crypto(u, crypto) ==
    /\ ops < MaxOps
    /\ LET e == AddEffect(USER_DATA, DATA_FILE, u, "crypto", crypto)
       IN  /\ USER_DATA' = e.table
           /\ DATA_FILE' = e.file
           /\ call' = CallRecord("add_crypto", u, "crypto", crypto.ticker, crypto,
                                 e.outcome, e.ret, e.saved)
           /\ committed' = IF e.outcome = "return" THEN e.table ELSE committed
    /\ ops' = ops + 1
    /\ UNCHANGED <<task, gw>>

\* remove_asset: the three removals in turn, ending at the first that returns
\* True or raises.
RemoveAssetEffect(table, file, u, ticker) ==
    LET t == Upper(ticker)
        e1 == RemoveEffect(table, file, u, "stock", t)
        e2 == RemoveEffect(e1.table, e1.file, u, "crypto", t)
        e3 == RemoveEffect(e2.table, e2.file, u, "mutual_fund", t)
    IN  IF e1.outcome /= "return" \/ e1.ret = TRUE THEN e1
        ELSE IF e2.outcome /= "return" \/ e2.ret = TRUE THEN e2
        ELSE e3

remove_asset(u, ticker) ==
    /\ ops < MaxOps
    /\ LET e == RemoveAssetEffect(USER_DATA, DATA_FILE, u, ticker)
       IN  /\ USER_DATA' = e.table
           /\ DATA_FILE' = e.file
           /\ call' = CallRecord("remove_asset", u, "", ticker, None,
                                 e.outcome, e.ret, e.saved)
           /\ committed' = IF e.outcome = "return" /\ e.saved THEN e.table ELSE committed
    /\ ops' = ops + 1
    /\ UNCHANGED <<task, gw>>

USD == <<"U", "S", "D">>

\* all_tickers of get_portfolio_summary
AllTickers(portfolio) ==
    [i \in 1..Len(portfolio.stocks) |-> portfolio.stocks[i].ticker]
    \o [i \in 1..Len(portfolio.mutual_funds) |-> portfolio.mutual_funds[i].ticker]
    \o [i \in 1..Len(portfolio.crypto) |-> portfolio.crypto[i].ticker \o USD]

\* {q['symbol']: q['price'] for q in live_quotes}: a later quote of a symbol
\* replaces an earlier one.
PriceMap(live_quotes) ==
    [s \in {live_quotes[i].symbol : i \in 1..Len(live_quotes)} |->
        LET last == CHOOSE i \in 1..Len(live_quotes) :
                        /\ live_quotes[i].symbol = s
                        /\ \A k \in (i + 1)..Len(live_quotes) : live_quotes[k].symbol /= s
        IN  live_quotes[last].price]

\* The symbol a holding is looked up by in the price map.
LookupSymbol(key, asset) ==
    IF key = "crypto" THEN Upper(asset.ticker) \o USD ELSE Upper(asset.ticker)

\* price_map.get(symbol) followed by `if current_price:`
Priced(price_map, symbol) ==
    symbol \in DOMAIN price_map /\ price_map[symbol] /= 0

\* The (key, assets, cost_field) triples the valuation loop runs over.
ValuedKeys == <<"stocks", "crypto">>

\* The details list of one key.
Details(key, assets, price_map) ==
    LET priced == SelectSeq(assets,
                    LAMBDA asset : Priced(price_map, LookupSymbol(key, asset)))
    IN  [i \in 1..Len(priced) |->
            LET asset == priced[i]
                current_price == price_map[LookupSymbol(key, asset)]
            IN  [ticker |-> asset.ticker, quantity |-> asset.quantity,
                 current_price |-> current_price,
                 current_value |-> asset.quantity * current_price,
                 investment_value |-> asset.quantity * asset.avg_cost,
                 total_gain_loss |-> asset.quantity * current_price
                                     - asset.quantity * asset.avg_cost]]

\* The summary get_portfolio_summary builds from its portfolio and the quotes.
Summary(portfolio, live_quotes) ==
    LET price_map == PriceMap(live_quotes)
        details == [i \in 1..Len(ValuedKeys) |->
                        Details(ValuedKeys[i], portfolio[ValuedKeys[i]], price_map)]
        all == details[1] \o details[2]
        total_value == SumSeq([i \in 1..Len(all) |-> all[i].current_value])
        total_investment == SumSeq([i \in 1..Len(all) |-> all[i].investment_value])
    IN  [kind |-> "summary",
         stocks |-> details[1], crypto |-> details[2],
         total_value |-> total_value,
         total_investment |-> total_investment,
         total_gain_loss |-> total_value - total_investment]

EmptyMessage == [kind |-> "empty"]
UnavailableMessage == [kind |-> "unavailable"]

\* get_portfolio_summary up to its await: the portfolio is read, and the call
\* ends at once when it holds nothing.
get_portfolio_summary_start(u) ==
    /\ ops < MaxOps
    /\ task.pc = "idle"
    /\ LET portfolio == PortfolioOf(USER_DATA, u)
           all_tickers == AllTickers(portfolio)
       IN  task' = IF all_tickers = <<>>
                   THEN [pc |-> "done", user |-> u, portfolio |-> portfolio,
                         all_tickers |-> all_tickers, live_quotes |-> None,
                         result |-> EmptyMessage]
                   ELSE [pc |-> "awaiting", user |-> u, portfolio |-> portfolio,
                         all_tickers |-> all_tickers]
    /\ USER_DATA' = SetDefault(USER_DATA, u)
    /\ ops' = ops + 1
    /\ UNCHANGED <<DATA_FILE, call, committed, gw>>

\* The result of get_portfolio_summary once get_quotes has answered.
SummaryResult(portfolio, live_quotes) ==
    IF ~Truthy(live_quotes) THEN UnavailableMessage
    ELSE Summary(portfolio, live_quotes.v)

\* get_portfolio_summary reading the user's portfolio again after its await.
get_portfolio_summary_reread(response) ==
    /\ task.pc = "awaiting"
    /\ LET live_quotes == GetQuotesResult(task.all_tickers, response)
       IN  task' = [pc |-> "done", user |-> task.user, portfolio |-> task.portfolio,
                    all_tickers |-> task.all_tickers, live_quotes |-> live_quotes,
                    result |-> SummaryResult(PortfolioOf(USER_DATA, task.user),
                                             live_quotes)]
    /\ UNCHANGED <<USER_DATA, DATA_FILE, call, ops, committed, gw>>

\* get_portfolio_summary from its await to its end.
get_portfolio_summary_resume(response) ==
    /\ task.pc = "awaiting"
    /\ LET live_quotes == GetQuotesResult(task.all_tickers, response)
       IN  task' = [pc |-> "done", user |-> task.user, portfolio |-> task.portfolio,
                    all_tickers |-> task.all_tickers, live_quotes |-> live_quotes,
                    result |-> SummaryResult(task.portfolio, live_quotes)]
    /\ UNCHANGED <<USER_DATA, DATA_FILE, call, ops, committed, gw>>

\* The symbols of a request, as the provider names them.
RECURSIVE SeqToSet(_)
SeqToSet(s) == IF s = <<>> THEN {} ELSE {Head(s)} \cup SeqToSet(Tail(s))

RECURSIVE QuoteList(_, _, _)
QuoteList(symbols, quoted, price) ==
    IF symbols = <<>> THEN <<>>
    ELSE (IF Head(symbols) \in quoted
          THEN <<[symbol |-> Head(symbols), price |-> price[Head(symbols)]]>>
          ELSE <<>>) \o QuoteList(Tail(symbols), quoted \ {Head(symbols)}, price)

\* The answers to the quote request of a summary: a failure, or quotes for
\* some of the requested symbols, each at some price.
QuoteResponses(all_tickers) ==
    LET symbols == [i \in 1..Len(all_tickers) |-> Upper(all_tickers[i])]
        S == SeqToSet(symbols)
    IN  Failures \cup
        {Ok(PyList(QuoteList(symbols, quoted, price))) :
            quoted \in SUBSET S, price \in {[s \in S |-> p] : p \in Prices}
                                  \cup {[s \in S |-> IF s = symbols[1] THEN 5 ELSE 10]}}

NextTools ==
    \/ \E u \in Users, stock \in StockHolding : add_stock(u, stock)
    \/ \E u \in Users, crypto \in CryptoHolding : add_crypto(u, crypto)
    \/ \E u \in Users, ticker \in TickerInputs : remove_asset(u, ticker)
    \/ \E u \in Users : get_portfolio_summary_start(u)
    \/ /\ task.pc = "awaiting"
       /\ \E response \in QuoteResponses(task.all_tickers) :
             get_portfolio_summary_resume(response)

SpecTools == Init /\ [][NextTools]_vars

-----------------------------------------------------------------------------
(* Properties *)

\* models.py: the Portfolio field that holds an asset class.
ClassField(asset_type) ==
    CASE asset_type = "stock" -> "stocks"
      [] asset_type = "mutual_fund" -> "mutual_funds"
      [] asset_type = "crypto" -> "crypto"

Contains(list, x) == \E i \in 1..Len(list) : list[i] = x
SameTicker(a, b) == Upper(a) = Upper(b)
HasTicker(list, ticker) == \E i \in 1..Len(list) : SameTicker(list[i].ticker, ticker)
Unique(list) ==
    \A i, k \in 1..Len(list) : SameTicker(list[i].ticker, list[k].ticker) => i = k
AllUpper(list) == \A i \in 1..Len(list) : list[i].ticker = Upper(list[i].ticker)
Without(list, ticker) ==
    SelectSeq(list, LAMBDA a : ~SameTicker(a.ticker, ticker))

\* The class list of the call's user before and after the call.
ListBefore == PortfolioOf(call.before, call.user)[ClassField(call.asset_type)]
ListAfter == PortfolioOf(USER_DATA, call.user)[ClassField(call.asset_type)]
Persisted == LoadedTable(DATA_FILE)

Added == call.op = "add_asset_to_portfolio"
Removed == call.op = "remove_asset_from_portfolio"

\* Every portfolio other than the call's class list is as it was.
OthersUntouched ==
    /\ \A u \in Users \ {call.user} :
          PortfolioOf(USER_DATA, u) = PortfolioOf(call.before, u)
    /\ \A k \in PortfolioKeys \ {ClassField(call.asset_type)} :
          PortfolioOf(USER_DATA, call.user)[k] = PortfolioOf(call.before, call.user)[k]

\* C1: for every user and every asset class the list holds at most one entry
\* per ticker (letter case ignored), whatever adds and removes were made.
C1_TickerUniqueness ==
    \A u \in DOMAIN USER_DATA : \A k \in DOMAIN USER_DATA[u] : Unique(USER_DATA[u][k])

\* C2: every ticker stored in the in-memory table and in the persisted
\* document is in its uppercase form.
C2_StoredTickersUppercase ==
    /\ \A u \in DOMAIN USER_DATA : \A k \in DOMAIN USER_DATA[u] : AllUpper(USER_DATA[u][k])
    /\ \A u \in DOMAIN Persisted : \A k \in DOMAIN Persisted[u] : AllUpper(Persisted[u][k])

\* C3: add_asset_to_portfolio returns without raising for every asset class,
\* and on return the holding is in the user's list of that class, in the table
\* and in the persisted document.
C3_AddAlwaysSucceeds ==
    Added =>
        /\ call.outcome = "return"
        /\ Contains(ListAfter, call.data)
        /\ call.user \in DOMAIN Persisted
        /\ Contains(PortfolioOf(Persisted, call.user)[ClassField(call.asset_type)],
                    call.data)

\* C4: removing a ticker with no match in the user's list of the class returns
\* False, changes no user's holdings and does not rewrite the document.
C4_RemoveAbsentIsNoOp ==
    (Removed /\ ~HasTicker(ListBefore, call.ticker)) =>
        /\ call.outcome = "return"
        /\ call.ret = FALSE
        /\ \A u \in Users : PortfolioOf(USER_DATA, u) = PortfolioOf(call.before, u)
        /\ ~call.saved
        /\ DATA_FILE = call.fileBefore

\* C5: removing a present ticker deletes every case-insensitive match from the
\* class list, keeps the other entries in order, touches nothing else, returns
\* True and writes the document; the document is written only when an entry
\* was removed.
C5_RemovePresent ==
    Removed =>
        /\ HasTicker(ListBefore, call.ticker) =>
              /\ call.outcome = "return"
              /\ call.ret = TRUE
              /\ ListAfter = Without(ListBefore, call.ticker)
              /\ OthersUntouched
        /\ call.saved <=> HasTicker(ListBefore, call.ticker)

\* C6: the table reloaded from the persisted document gives every user the
\* portfolio that get_user_portfolio returns from the in-memory table.
C6_PersistenceRoundTrip ==
    \A u \in Users : PortfolioOf(LoadedTable(DATA_FILE), u) = PortfolioOf(USER_DATA, u)

\* A removal rewrote the document while another user's holdings stay in it.
C6_Witness ==
    /\ Removed /\ call.saved /\ DATA_FILE /= call.fileBefore
    /\ \E u \in DOMAIN USER_DATA \ {call.user} : USER_DATA[u].stocks /= <<>>

\* The quantity and the cost of a holding of a class, as the claim values it.
QuantityOf(key, asset) == IF key = "mutual_funds" THEN asset.units ELSE asset.quantity
CostOf(key, asset) == IF key = "mutual_funds" THEN asset.avg_nav ELSE asset.avg_cost

ClaimedTotal(portfolio, price_map, key, worth(_, _)) ==
    LET held == SelectSeq(portfolio[key],
                    LAMBDA a : LookupSymbol(key, a) \in DOMAIN price_map)
    IN  SumSeq([i \in 1..Len(held) |-> worth(key, held[i])])

ClaimedValue(portfolio, price_map) ==
    LET worth(key, a) == QuantityOf(key, a) * price_map[LookupSymbol(key, a)]
    IN  ClaimedTotal(portfolio, price_map, "stocks", worth)
        + ClaimedTotal(portfolio, price_map, "mutual_funds", worth)
        + ClaimedTotal(portfolio, price_map, "crypto", worth)

ClaimedInvestment(portfolio, price_map) ==
    LET worth(key, a) == QuantityOf(key, a) * CostOf(key, a)
    IN  ClaimedTotal(portfolio, price_map, "stocks", worth)
        + ClaimedTotal(portfolio, price_map, "mutual_funds", worth)
        + ClaimedTotal(portfolio, price_map, "crypto", worth)

\* C7: a summary built from a non-empty quote list totals quantity * price and
\* quantity * avg_cost over every holding (stock, fund, crypto) whose symbol is
\* in the price map, leaves the others out without failing, and reports the
\* difference as the gain.
C7_ValuationOverPricedHoldings ==
    (task.pc = "done" /\ Truthy(task.live_quotes)) =>
        /\ task.result.kind = "summary"
        /\ task.result.total_value =
              ClaimedValue(task.portfolio, PriceMap(task.live_quotes.v))
        /\ task.result.total_investment =
              ClaimedInvestment(task.portfolio, PriceMap(task.live_quotes.v))
        /\ task.result.total_gain_loss =
              task.result.total_value - task.result.total_investment

\* The empty/none value the gateway table gives each operation.
Designated(op) ==
    IF op \in {"get_quotes", "get_stock_news", "get_fund_holdings"}
    THEN PyList(<<>>) ELSE None

\* C8: a gateway operation whose request fails makes that one request only
\* and returns its designated empty/none value.
C8_FailureDegradesToEmpty ==
    (gw.op /= "none" /\ gw.requests > 0 /\ Failed(gw.response)) =>
        /\ gw.outcome = "return"
        /\ gw.requests = 1
        /\ gw.result = Designated(gw.op)

\* C9: an add that returns replaces the entry of its ticker at the index it
\* had, keeping length and the other entries, and appends when the ticker has
\* no entry.
C9_UpsertPosition ==
    (Added /\ call.outcome = "return") =>
        IF HasTicker(ListBefore, call.ticker)
        THEN \E i \in 1..Len(ListBefore) :
                /\ SameTicker(ListBefore[i].ticker, call.ticker)
                /\ ListAfter = [ListBefore EXCEPT ![i] = call.data]
        ELSE ListAfter = Append(ListBefore, call.data)

\* C10: between tool invocations the table shows every user the portfolio the
\* last completed add/remove left, and a finished summary is the summary of
\* the portfolio read before its await, whatever was added or removed since.
C10_NoPartialWrites ==
    /\ \A u \in Users : PortfolioOf(USER_DATA, u) = PortfolioOf(committed, u)
    /\ task.pc = "done" =>
          task.result = IF task.all_tickers = <<>> THEN EmptyMessage
                        ELSE SummaryResult(task.portfolio, task.live_quotes)

\* A summary was built although the user's holdings changed during the wait.
C10_Witness ==
    /\ task.pc = "done"
    /\ task.result.kind = "summary"
    /\ PortfolioOf(USER_DATA, task.user) /= task.portfolio

====
